---- MODULE Spec2Model ----
(***************************************************************************)
(* A model of the cluster-hierarchy pipeline: the field extractor and      *)
(* record decoder (hierarchy_parser_old.py, data_parser.py), the hierarchy *)
(* builder build_hierarchy_tree (hierarchy_parser_old.py) and the level-3  *)
(* parent assignment of generate_embeddings_for_level                      *)
(* (generate_embeddings.py).                                               *)
(*                                                                         *)
(* A Python str is a sequence of symbols.  A symbol is one character, or a *)
(* run of characters the code only ever treats as a unit: a field name     *)
(* ("cluster_name"), a character reference ("&lt;"), the word "Unknown".   *)
(* A dict is a function whose DOMAIN is its key set; a list is a sequence. *)
(***************************************************************************)
EXTENDS Integers, Sequences, FiniteSets, TLC

VARIABLES
    \* ---- the field extractor / record decoder applied to one input
    sample,         \* how the input was put together: [shape, text, extra]
    source_file,    \* whose extract_xml_field runs: "hierarchy_parser_old" | "data_parser"
    xml_string,     \* the raw input (a str, or NaN)
    field_name,     \* the field asked for
    content,        \* extract_xml_field(xml_string, field_name)
    content_again,  \* extract_xml_field(content, field_name)
    is_meta_cluster,\* the field set asked of parse_xml_robust
    result,         \* parse_xml_robust(xml_string, is_meta_cluster)
    xpc,            \* "input" | "extracted" | "reextracted" | "decoded"
    \* ---- the membership parser applied to one input
    member_sample,  \* how the input was put together: [shape, pieces]
    item_ids_cell,  \* the raw membership value (a str, or NaN)
    item_ids,       \* the list parse_item_ids returned
    stdout,         \* the lines it printed
    tried,          \* the try blocks it entered, in order
    mpc,            \* "input" | "parsed"
    \* ---- hierarchy_parser_old.main, then generate_embeddings.main
    df,             \* the table read from data.csv: a sequence of rows
    clusters,       \* build_hierarchy_tree's list of individual clusters
    round_groups,   \* round_1_groups, round_2_groups, round_3_groups, by round
    meta_clusters,  \* the dict of the three rounds' meta-cluster lists
    hierarchy_data, \* the document: returned, dumped, then loaded again
    all_embeddings, \* generate_embeddings.main's result, by level
    pc              \* where the run stands

xvars == <<sample, source_file, xml_string, field_name, content, content_again,
           is_meta_cluster, result, xpc>>
hvars == <<df, clusters, round_groups, meta_clusters, hierarchy_data, all_embeddings, pc>>
mvars == <<member_sample, item_ids_cell, item_ids, stdout, tried, mpc>>
vars == <<xvars, mvars, hvars>>

\* ------------------------------------------------------------------ bounds
\* the longest inner text, counted in fragments of TextFragments
MaxFrags == 3

\* the most rows of a table
MaxRows == 3

\* the most meta-clusters in a round of a hand-made hierarchy document
MaxMeta == 2

\* the most pieces of a raw membership value
MaxPieces == 3

\* ------------------------------------------------------- Python primitives
\* pandas' missing value (what read_csv gives for an empty cell); not a str
NaN == <<"NaN">>

isna(x) == x = NaN

\* str.strip() with no argument strips whitespace
Whitespace == {" ", "\n"}

RECURSIVE lstrip_chars(_, _)
lstrip_chars(s, chars) ==
    IF s # <<>> /\ Head(s) \in chars THEN lstrip_chars(Tail(s), chars) ELSE s

RECURSIVE rstrip_chars(_, _)
rstrip_chars(s, chars) ==
    IF s # <<>> /\ s[Len(s)] \in chars
    THEN rstrip_chars(SubSeq(s, 1, Len(s) - 1), chars)
    ELSE s

\* str.strip(chars): drops every leading and trailing character that is in chars
strip_chars(s, chars) == rstrip_chars(lstrip_chars(s, chars), chars)

strip(s) == strip_chars(s, Whitespace)

\* html.unescape: one pass, each character reference replaced by its character
unescape_symbol(c) ==
    IF c = "&lt;" THEN "<"
    ELSE IF c = "&gt;" THEN ">"
    ELSE IF c = "&amp;" THEN "&"
    ELSE c

unescape(s) == [i \in 1..Len(s) |-> unescape_symbol(s[i])]

\* dict.get(key) with the default left out: a missing key gives None
get_without_default(d, key, default) == IF key \in DOMAIN d THEN d[key] ELSE <<"None">>

\* dict.get(key, default)
get(d, key, default) == IF key \in DOMAIN d THEN d[key] ELSE default

\* ------------------------------------------------------------ re.search
\* the literal pat matches s at position i
StartsAt(s, i, pat) ==
    /\ i >= 1
    /\ i + Len(pat) - 1 <= Len(s)
    /\ \A k \in 1..Len(pat) : s[i + k - 1] = pat[k]

\* (.*?) under re.DOTALL followed by the literal lit, tried from position j:
\* the lazy group grows one symbol at a time until lit matches.  The position
\* where lit starts, 0 when it matches nowhere.
RECURSIVE lazy_until(_, _, _)
lazy_until(s, j, lit) ==
    IF j > Len(s) THEN 0
    ELSE IF StartsAt(s, j, lit) THEN j
    ELSE lazy_until(s, j + 1, lit)

open_tag(f) == <<"<", f, ">">>
close_tag(f) == <<"<", "/", f, ">">>
open_fragment(f) == <<"<", f>>

NoMatch == [matched |-> FALSE, group1 |-> <<>>, group2 |-> <<>>]

\* (.*) in place of (.*?): the group runs to the last closing tag
RECURSIVE last_from(_, _, _)
last_from(s, j, lit) ==
    IF j < 1 THEN 0
    ELSE IF StartsAt(s, j, lit) THEN j
    ELSE last_from(s, j - 1, lit)

RECURSIVE search_pattern_greedy(_, _, _)
search_pattern_greedy(s, f, i) ==
    IF i > Len(s) THEN NoMatch
    ELSE LET j == last_from(s, Len(s), close_tag(f)) IN
         IF StartsAt(s, i, open_tag(f)) /\ j >= i + 3
         THEN [matched |-> TRUE, group1 |-> SubSeq(s, i + 3, j - 1), group2 |-> <<>>]
         ELSE search_pattern_greedy(s, f, i + 1)

\* re.search(f'<{f}>(.*?)</{f}>', s, re.DOTALL), start positions tried from i on
RECURSIVE search_pattern(_, _, _)
search_pattern(s, f, i) ==
    IF i > Len(s) THEN NoMatch
    ELSE LET j == lazy_until(s, i + 3, close_tag(f)) IN
         IF StartsAt(s, i, open_tag(f)) /\ j # 0
         THEN [matched |-> TRUE, group1 |-> SubSeq(s, i + 3, j - 1), group2 |-> <<>>]
         ELSE search_pattern(s, f, i + 1)

\* '<{f}([^>]*?)(.*?)</{f}>' tried at start position i with group 1 of length g:
\* group 1 is lazy, so it takes a further symbol (one that is not ">") only
\* when the rest cannot match with the shorter group.
RECURSIVE malformed_at(_, _, _, _)
malformed_at(s, f, i, g) ==
    LET p == i + 2 + g
        j == lazy_until(s, p, close_tag(f))
    IN  IF j # 0
        THEN [matched |-> TRUE, group1 |-> SubSeq(s, i + 2, p - 1),
              group2 |-> SubSeq(s, p, j - 1)]
        ELSE IF p <= Len(s) /\ s[p] # ">" THEN malformed_at(s, f, i, g + 1)
        ELSE NoMatch

\* re.search(f'<{f}([^>]*?)(.*?)</{f}>', s, re.DOTALL), start positions from i on
RECURSIVE search_malformed_pattern(_, _, _)
search_malformed_pattern(s, f, i) ==
    IF i > Len(s) THEN NoMatch
    ELSE LET m == IF StartsAt(s, i, open_fragment(f))
                  THEN malformed_at(s, f, i, 0) ELSE NoMatch
         IN  IF m.matched THEN m ELSE search_malformed_pattern(s, f, i + 1)

\* --------------------------------------------------------- field extractor
\* extract_xml_field without its html.unescape
extract_xml_field_undecoded(xml_content, field) ==
    LET match == search_pattern(xml_content, field, 1)
        malformed_match == search_malformed_pattern(xml_content, field, 1)
    IN  IF match.matched THEN strip(match.group1)
        ELSE IF malformed_match.matched THEN strip(malformed_match.group2)
        ELSE <<>>

\* hierarchy_parser_old.extract_xml_field
extract_xml_field(xml_content, field) ==
    LET match == search_pattern(xml_content, field, 1)
        malformed_match == search_malformed_pattern(xml_content, field, 1)
    IN  IF match.matched THEN unescape(strip(match.group1))
        ELSE IF malformed_match.matched THEN unescape(strip(malformed_match.group2))
        ELSE <<>>

\* data_parser.extract_xml_field: the standard pattern only
dp_extract_xml_field(xml_content, field) ==
    LET match == search_pattern(xml_content, field, 1)
    IN  IF match.matched THEN unescape(strip(match.group1)) ELSE <<>>

\* ---------------------------------------------------------- record decoder
IndividualFields == {"common_topic", "keywords", "common_engagement",
                     "common_redirection", "synthesis", "cluster_name"}

MetaFields == {"overarching_theme", "meta_keywords", "engagement_tactics",
               "redirection_methods", "synthesis_of_clusters", "meta_cluster_name"}

\* the backquote character (written as a word: a code fence is three of them)
Backquote == "backquote"

\* the characters of the argument of the first strip of xml_string: the three
\* backquotes of a code fence and the letters x, m, l
FenceChars == {Backquote, "x", "m", "l"}

\* xml_string.strip(fence + 'xml').strip(fence).strip()
clean_xml_string(s) == strip(strip_chars(strip_chars(s, FenceChars), {Backquote}))

fields_of(is_meta) == IF is_meta THEN MetaFields ELSE IndividualFields

\* the empty dict
EmptyDict == <<>>

\* parse_xml_robust keeping only the fields it found text for
parse_xml_robust_found_only(xml, is_meta) ==
    IF isna(xml) THEN EmptyDict
    ELSE LET s == clean_xml_string(xml)
             found == {field \in fields_of(is_meta) : extract_xml_field(s, field) # <<>>}
         IN  [field \in found |-> extract_xml_field(s, field)]

\* hierarchy_parser_old.parse_xml_robust
parse_xml_robust(xml, is_meta) ==
    IF isna(xml) THEN EmptyDict
    ELSE [field \in fields_of(is_meta) |->
              extract_xml_field(clean_xml_string(xml), field)]

\* data_parser.parse_xml_robust
dp_parse_xml_robust(xml, is_meta) ==
    IF isna(xml) THEN EmptyDict
    ELSE [field \in fields_of(is_meta) |->
              dp_extract_xml_field(clean_xml_string(xml), field)]

\* ------------------------------------------------------- membership parser
\* The membership cell is a str over these symbols: the brackets, the comma,
\* the space, the two quote characters, the letters a, c and x (none of them
\* a string prefix), the digit 7, the fraction 1.5 and the words True, False
\* and None.
QuoteChars == {"'", "\""}

OperatorSymbols == {"[", "]", "(", ")", ","}

\* the symbols a number is written with; 1.5 holds the one decimal point
NumberSymbols == {"7", "1.5"}

FloatSymbols == {"1.5"}

\* ---- ast.literal_eval (the standard library; called at line 43)
\* the first position from i on where s holds symbol c, 0 when there is none
RECURSIVE find_symbol(_, _, _)
find_symbol(s, c, i) ==
    IF i > Len(s) THEN 0
    ELSE IF s[i] = c THEN i
    ELSE find_symbol(s, c, i + 1)

\* the last position of the run of number and letter symbols that starts at i
RECURSIVE word_end(_, _)
word_end(s, i) ==
    IF i < Len(s) /\ s[i + 1] \notin OperatorSymbols \cup QuoteChars \cup {" "}
    THEN word_end(s, i + 1)
    ELSE i

\* the token a run of number and letter symbols makes: an int, a float, or a
\* name (two decimal points, or a digit before a letter, make no token at all:
\* "bad")
word_token(run) ==
    LET floats == {k \in 1..Len(run) : run[k] \in FloatSymbols} IN
    IF \A k \in 1..Len(run) : run[k] \in NumberSymbols
    THEN IF floats = {} THEN [t |-> "int", v |-> run]
         ELSE IF Cardinality(floats) = 1 THEN [t |-> "float", v |-> run]
         ELSE [t |-> "bad", v |-> run]
    ELSE IF run[1] \in NumberSymbols THEN [t |-> "bad", v |-> run]
    ELSE [t |-> "name", v |-> run]

NoTokens == [ok |-> FALSE, toks |-> <<>>]

\* the tokens of s from position i on, acc being those before; spaces between
\* tokens are skipped, a quote runs to the next quote of its kind
RECURSIVE tokenize(_, _, _)
tokenize(s, i, acc) ==
    IF i > Len(s) THEN [ok |-> TRUE, toks |-> acc]
    ELSE IF s[i] = " " THEN tokenize(s, i + 1, acc)
    ELSE IF s[i] \in OperatorSymbols
         THEN tokenize(s, i + 1, Append(acc, [t |-> "op", v |-> <<s[i]>>]))
    ELSE IF s[i] \in QuoteChars
         THEN LET j == find_symbol(s, s[i], i + 1) IN
              IF j = 0 THEN NoTokens
              ELSE tokenize(s, j + 1, Append(acc, [t |-> "str", v |-> SubSeq(s, i + 1, j - 1)]))
    ELSE LET j == word_end(s, i)
             tok == word_token(SubSeq(s, i, j))
         IN  IF tok.t = "bad" THEN NoTokens
             ELSE tokenize(s, j + 1, Append(acc, tok))

\* a Python value: [kind, v] with v the symbols of a str, int, float, bool or
\* None and the items of a tuple or list
NoValue == [ok |-> FALSE, kind |-> "error", v |-> <<>>, p |-> 0]

parsed(kind, v, p) == [ok |-> TRUE, kind |-> kind, v |-> v, p |-> p]

is_op(toks, p, c) == p <= Len(toks) /\ toks[p].t = "op" /\ toks[p].v = <<c>>

\* toks stands at the closer of the sequence being read ("" is the end of input)
at_closer(toks, p, closer) ==
    IF closer = "" THEN p > Len(toks) ELSE is_op(toks, p, closer)

\* adjacent string literals are one string: the position after the last of them
RECURSIVE strings_end(_, _)
strings_end(toks, p) ==
    IF p <= Len(toks) /\ toks[p].t = "str" THEN strings_end(toks, p + 1) ELSE p

RECURSIVE concat_strings(_, _, _)
concat_strings(toks, p, q) ==
    IF p >= q THEN <<>> ELSE toks[p].v \o concat_strings(toks, p + 1, q)

RECURSIVE parse_atom(_, _)
RECURSIVE parse_items(_, _, _, _, _)

\* one operand at position p: a number, strings, True, False, None, a list
\* display, a tuple display or a parenthesized operand; any other name is not a
\* literal.  p is the position after it.
parse_atom(toks, p) ==
    IF p > Len(toks) THEN NoValue
    ELSE LET tok == toks[p] IN
         CASE tok.t \in {"int", "float"} -> parsed(tok.t, tok.v, p + 1)
           [] tok.t = "str" ->
                parsed("str", concat_strings(toks, p, strings_end(toks, p)),
                      strings_end(toks, p))
           [] tok.t = "name" ->
                IF tok.v \in {<<"True">>, <<"False">>} THEN parsed("bool", tok.v, p + 1)
                ELSE IF tok.v = <<"None">> THEN parsed("None", tok.v, p + 1)
                ELSE NoValue
           [] tok.t = "op" /\ tok.v = <<"[">> ->
                LET r == parse_items(toks, p + 1, "]", <<>>, 0) IN
                IF r.ok THEN parsed("list", r.v, r.p) ELSE NoValue
           [] tok.t = "op" /\ tok.v = <<"(">> ->
                LET r == parse_items(toks, p + 1, ")", <<>>, 0) IN
                IF ~r.ok THEN NoValue
                ELSE IF r.commas = 0 /\ Len(r.v) = 1
                     THEN parsed(r.v[1].kind, r.v[1].v, r.p)
                     ELSE parsed("tuple", r.v, r.p)
           [] OTHER -> NoValue

\* operands separated by commas up to the closer, a trailing comma allowed;
\* acc are the operands read, commas the commas passed.  An operand followed
\* by anything but a comma or the closer (a call, a subscript, two operands
\* side by side) is no literal.
parse_items(toks, p, closer, acc, commas) ==
    IF at_closer(toks, p, closer)
    THEN [ok |-> TRUE, v |-> acc, commas |-> commas, p |-> p + 1]
    ELSE LET e == parse_atom(toks, p) IN
         IF ~e.ok THEN [ok |-> FALSE, v |-> <<>>, commas |-> 0, p |-> 0]
         ELSE LET item == [kind |-> e.kind, v |-> e.v] IN
              IF at_closer(toks, e.p, closer)
              THEN [ok |-> TRUE, v |-> Append(acc, item), commas |-> commas, p |-> e.p + 1]
              ELSE IF is_op(toks, e.p, ",")
                   THEN parse_items(toks, e.p + 1, closer, Append(acc, item), commas + 1)
                   ELSE [ok |-> FALSE, v |-> <<>>, commas |-> 0, p |-> 0]

\* ast.literal_eval(s): the value s denotes, or no value (ok = FALSE) when it
\* raises (SyntaxError or ValueError).  An expression list with a comma is a
\* tuple; the empty input is no expression.
literal_eval(s) ==
    LET lexed == tokenize(s, 1, <<>>)
        r == IF lexed.ok THEN parse_items(lexed.toks, 1, "", <<>>, 0)
             ELSE [ok |-> FALSE, v |-> <<>>, commas |-> 0, p |-> 0]
    IN  IF ~r.ok \/ Len(r.v) = 0 THEN [ok |-> FALSE, kind |-> "error", v |-> <<>>]
        ELSE IF r.commas = 0 THEN [ok |-> TRUE, kind |-> r.v[1].kind, v |-> r.v[1].v]
        ELSE [ok |-> TRUE, kind |-> "tuple", v |-> r.v]

\* ---- the built-ins applied to the items
RECURSIVE join(_, _)
join(parts, sep) ==
    IF parts = <<>> THEN <<>>
    ELSE IF Len(parts) = 1 THEN parts[1]
    ELSE parts[1] \o sep \o join(Tail(parts), sep)

\* repr(x)
RECURSIVE repr(_)
repr(x) ==
    CASE x.kind = "str" -> <<"'">> \o x.v \o <<"'">>
      [] x.kind = "tuple" ->
           IF Len(x.v) = 1 THEN <<"(">> \o repr(x.v[1]) \o <<",", ")">>
           ELSE <<"(">> \o join([k \in 1..Len(x.v) |-> repr(x.v[k])], <<",", " ">>) \o <<")">>
      [] x.kind = "list" ->
           <<"[">> \o join([k \in 1..Len(x.v) |-> repr(x.v[k])], <<",", " ">>) \o <<"]">>
      [] OTHER -> x.v

\* str(x)
str(x) == IF x.kind = "str" THEN x.v ELSE repr(x)

\* bool(x)
bool(x) ==
    CASE x.kind = "bool" -> x.v = <<"True">>
      [] x.kind = "None" -> FALSE
      [] x.kind \in {"int", "float"} -> \E k \in 1..Len(x.v) : x.v[k] # "0"
      [] OTHER -> x.v # <<>>

\* what "for item in parsed_data" goes through: the items of a tuple or list,
\* the characters of a str
iterable(x) == x.kind \in {"tuple", "list", "str"}

items_of(x) ==
    IF x.kind = "str" THEN [k \in 1..Len(x.v) |-> [kind |-> "str", v |-> <<x.v[k]>>]]
    ELSE x.v

\* ---- parse_item_ids
\* the loop over parsed_data that keeps the pairs alone
RECURSIVE members_of_items_pairs_only(_, _)
members_of_items_pairs_only(items, k) ==
    IF k > Len(items) THEN <<>>
    ELSE LET item == items[k] IN
         IF item.kind = "tuple" /\ Len(item.v) >= 2
         THEN <<[item_id |-> str(item.v[1]), truth_value |-> bool(item.v[2])]>>
                  \o members_of_items_pairs_only(items, k + 1)
         ELSE members_of_items_pairs_only(items, k + 1)

\* the loop over parsed_data (lines 47-58) from item k on
RECURSIVE members_of_items(_, _)
members_of_items(items, k) ==
    IF k > Len(items) THEN <<>>
    ELSE LET item == items[k] IN
         IF item.kind = "tuple" /\ Len(item.v) >= 2
         THEN <<[item_id |-> str(item.v[1]), truth_value |-> bool(item.v[2])]>>
                  \o members_of_items(items, k + 1)
         ELSE IF item.kind \in {"str", "int", "bool"}
         THEN <<[item_id |-> str(item), truth_value |-> FALSE]>>
                  \o members_of_items(items, k + 1)
         ELSE members_of_items(items, k + 1)

\* str.split(','), from position i on
RECURSIVE split_commas(_, _)
split_commas(s, i) ==
    LET j == find_symbol(s, ",", i) IN
    IF j = 0 THEN <<SubSeq(s, i, Len(s))>>
    ELSE <<SubSeq(s, i, j - 1)>> \o split_commas(s, j + 1)

\* the loop over the pieces without the strip of the quotes
RECURSIVE members_of_pieces_quoted(_, _)
members_of_pieces_quoted(pieces, k) ==
    IF k > Len(pieces) THEN <<>>
    ELSE LET item == strip(pieces[k]) IN
         IF item # <<>>
         THEN <<[item_id |-> item, truth_value |-> FALSE]>>
                  \o members_of_pieces_quoted(pieces, k + 1)
         ELSE members_of_pieces_quoted(pieces, k + 1)

\* the loop over the comma-separated pieces (lines 67-74) from piece k on
RECURSIVE members_of_pieces(_, _)
members_of_pieces(pieces, k) ==
    IF k > Len(pieces) THEN <<>>
    ELSE LET item == strip_chars(strip(pieces[k]), QuoteChars) IN
         IF item # <<>>
         THEN <<[item_id |-> item, truth_value |-> FALSE]>> \o members_of_pieces(pieces, k + 1)
         ELSE members_of_pieces(pieces, k + 1)

\* cleaned.startswith('[') and cleaned.endswith(']')
bracketed(cleaned) == cleaned # <<>> /\ Head(cleaned) = "[" /\ cleaned[Len(cleaned)] = "]"

\* the f-string printed at line 81: the first 100 characters of the value
could_not_parse(s) ==
    <<"Could not parse item_ids: ">> \o SubSeq(s, 1, IF Len(s) < 100 THEN Len(s) ELSE 100)
        \o <<"...">>

\* what a call leaves: the list returned, the lines printed, and the try
\* blocks entered
returned(list, printed, entered) ==
    [item_ids |-> list, stdout |-> printed, tried |-> entered]

\* parse_item_ids past its first test (lines 38-82), s being str(item_ids_str):
\* the literal strategy returns when literal_eval and the loop raise nothing (a
\* value that is not iterable raises TypeError in the loop); the split strategy
\* returns when the cleaned text is in brackets; else the line is printed and
\* the empty list returned
parse_strategies(s) ==
    LET parsed_data == literal_eval(s)
        cleaned == strip(s)
    IN  IF parsed_data.ok /\ iterable(parsed_data)
        THEN returned(members_of_items(items_of(parsed_data), 1), <<>>, <<"literal">>)
        ELSE IF bracketed(cleaned)
        THEN returned(members_of_pieces(
                          split_commas(SubSeq(cleaned, 2, Len(cleaned) - 1), 1), 1),
                      <<>>, <<"literal", "split">>)
        ELSE returned(<<>>, <<could_not_parse(s)>>, <<"literal", "split">>)

\* parse_item_ids without its first test: str(nan) goes through the strategies
parse_item_ids_call_untested(item_ids_str) ==
    IF isna(item_ids_str) THEN parse_strategies(<<"n", "a", "n">>)
    ELSE parse_strategies(item_ids_str)

\* hierarchy_parser_old.parse_item_ids: a missing cell returns at once
parse_item_ids_call(item_ids_str) ==
    IF isna(item_ids_str) THEN returned(<<>>, <<>>, <<>>)
    ELSE parse_strategies(item_ids_str)

\* data_parser.parse_item_ids, the same text as hierarchy_parser_old's
dp_parse_item_ids_call(item_ids_str) ==
    IF isna(item_ids_str) THEN returned(<<>>, <<>>, <<>>)
    ELSE parse_strategies(item_ids_str)

\* the list parse_item_ids returns
parse_item_ids(item_ids_str) == parse_item_ids_call(item_ids_str).item_ids

\* -------------------------------------------------------- cluster assembler
RoundKeys == {"round_1", "round_2", "round_3"}

round_key(k) == CASE k = 1 -> "round_1" [] k = 2 -> "round_2" [] k = 3 -> "round_3"

\* the column of the table that holds round k's meta analysis
round_column(row, k) ==
    CASE k = 1 -> row.round_1_cluster_name
      [] k = 2 -> row.round_2_cluster_name
      [] k = 3 -> row.round_3_cluster_name

\* f'Cluster {cluster_id}'
default_cluster_name(cluster_id) == <<"Cluster", " ", ToString(cluster_id)>>

\* one entry of cluster_data['meta_analyses']
meta_analysis(round_meta) ==
    [theme       |-> get(round_meta, "overarching_theme", <<>>),
     keywords    |-> get(round_meta, "meta_keywords", <<>>),
     tactics     |-> get(round_meta, "engagement_tactics", <<>>),
     redirection |-> get(round_meta, "redirection_methods", <<>>),
     synthesis   |-> get(round_meta, "synthesis_of_clusters", <<>>),
     name        |-> get(round_meta, "meta_cluster_name", <<>>)]

\* the body of the loop over df.iterrows(): the cluster_data of row idx
cluster_data_of(idx, row) ==
    LET cluster_analysis == parse_xml_robust(row.cluster_name, FALSE)
        round_meta == [key \in RoundKeys |->
                          parse_xml_robust(
                              round_column(row, CHOOSE k \in 1..3 : round_key(k) = key),
                              TRUE)]
    IN  [id            |-> idx,
         name          |-> get(cluster_analysis, "cluster_name", default_cluster_name(idx)),
         description   |-> get(cluster_analysis, "synthesis", <<>>),
         topic         |-> get(cluster_analysis, "common_topic", <<>>),
         keywords      |-> get(cluster_analysis, "keywords", <<>>),
         engagement    |-> get(cluster_analysis, "common_engagement", <<>>),
         redirection   |-> get(cluster_analysis, "common_redirection", <<>>),
         item_ids      |-> parse_item_ids(row.item_ids),
         level         |-> 0,
         parent_names  |-> [key \in RoundKeys |->
                               get(round_meta[key], "meta_cluster_name", <<>>)],
         meta_analyses |-> [key \in RoundKeys |-> meta_analysis(round_meta[key])]]

\* -------------------------------------------------------- hierarchy builder
\* the literal 'Unknown'
Unknown == <<"Unknown">>

\* meta_data before any cluster of the group was seen
None == [none |-> TRUE]

\* Python's truth value of meta_data: None and the empty dict are false
truthy(meta_data) == meta_data # None /\ DOMAIN meta_data # {}

\* the position of key name in the defaultdict (kept in insertion order), 0 if absent
group_index(groups, name) ==
    IF \E i \in 1..Len(groups) : groups[i].name = name
    THEN CHOOSE i \in 1..Len(groups) : groups[i].name = name
    ELSE 0

\* group_add where the meta_data of the last cluster of the group stays
group_add_last_wins(groups, r_name, cluster_id, analysis) ==
    IF r_name = <<>> THEN groups
    ELSE LET made == IF group_index(groups, r_name) = 0
                     THEN Append(groups, [name |-> r_name, clusters |-> <<>>,
                                          meta_data |-> None])
                     ELSE groups
             i == group_index(made, r_name)
         IN  [made EXCEPT ![i].clusters = Append(@, cluster_id),
                          ![i].meta_data = analysis]

\* the three statements under "if r_name:" for one round: groups[r_name] (which
\* makes the entry when the key is new), the append, and the first-wins meta_data
group_add(groups, r_name, cluster_id, analysis) ==
    IF r_name = <<>> THEN groups
    ELSE LET made == IF group_index(groups, r_name) = 0
                     THEN Append(groups, [name |-> r_name, clusters |-> <<>>,
                                          meta_data |-> None])
                     ELSE groups
             i == group_index(made, r_name)
         IN  [made EXCEPT ![i].clusters = Append(@, cluster_id),
                          ![i].meta_data = IF ~truthy(@) THEN analysis ELSE @]

\* sorted(list of int)
RECURSIVE insert_ascending(_, _)
insert_ascending(x, s) ==
    IF s = <<>> THEN <<x>>
    ELSE IF x < Head(s) THEN <<x>> \o s
    ELSE <<Head(s)>> \o insert_ascending(x, Tail(s))

\* sorted(list of int, reverse=True)
RECURSIVE sorted_descending(_)
sorted_descending(s) ==
    IF s = <<>> THEN <<>>
    ELSE LET rest == sorted_descending(SubSeq(s, 1, Len(s) - 1))
             x == s[Len(s)]
             before == SelectSeq(rest, LAMBDA y : y >= x)
             after == SelectSeq(rest, LAMBDA y : y < x)
         IN  before \o <<x>> \o after

RECURSIVE sorted(_)
sorted(s) ==
    IF s = <<>> THEN <<>>
    ELSE insert_ascending(s[Len(s)], sorted(SubSeq(s, 1, Len(s) - 1)))

\* f"r{k}_{n}"
meta_cluster_id(k, n) == <<"r", ToString(k), "_", ToString(n)>>

\* the meta_cluster dict made from one group
meta_cluster_of(k, n, name, data) ==
    [id          |-> meta_cluster_id(k, n),
     name        |-> name,
     level       |-> k,
     description |-> IF truthy(data.meta_data) THEN data.meta_data.synthesis ELSE <<>>,
     topic       |-> IF truthy(data.meta_data) THEN data.meta_data.theme ELSE <<>>,
     keywords    |-> IF truthy(data.meta_data) THEN data.meta_data.keywords ELSE <<>>,
     tactics     |-> IF truthy(data.meta_data) THEN data.meta_data.tactics ELSE <<>>,
     redirection |-> IF truthy(data.meta_data) THEN data.meta_data.redirection ELSE <<>>,
     children    |-> sorted(data.clusters),
     child_count |-> Len(data.clusters)]

\* create_meta_clusters that skips only the empty name, not 'Unknown'
RECURSIVE create_meta_clusters_keep_unknown(_, _, _, _)
create_meta_clusters_keep_unknown(groups, k, i, acc) ==
    IF i > Len(groups) THEN acc
    ELSE IF groups[i].name = <<>>
         THEN create_meta_clusters_keep_unknown(groups, k, i + 1, acc)
         ELSE create_meta_clusters_keep_unknown(groups, k, i + 1,
                  Append(acc, meta_cluster_of(k, Len(acc), groups[i].name, groups[i])))

\* create_meta_clusters that numbers a meta-cluster by the position of its group
RECURSIVE create_meta_clusters_group_number(_, _, _, _)
create_meta_clusters_group_number(groups, k, i, acc) ==
    IF i > Len(groups) THEN acc
    ELSE IF groups[i].name = <<>> \/ groups[i].name = Unknown
         THEN create_meta_clusters_group_number(groups, k, i + 1, acc)
         ELSE create_meta_clusters_group_number(groups, k, i + 1,
                  Append(acc, meta_cluster_of(k, i - 1, groups[i].name, groups[i])))

\* the loop "for name, data in round_k_groups.items()", from entry i on, with
\* acc the meta_clusters[round_k] built so far
RECURSIVE create_meta_clusters(_, _, _, _)
create_meta_clusters(groups, k, i, acc) ==
    IF i > Len(groups) THEN acc
    ELSE IF groups[i].name = <<>> \/ groups[i].name = Unknown
         THEN create_meta_clusters(groups, k, i + 1, acc)
         ELSE create_meta_clusters(groups, k, i + 1,
                  Append(acc, meta_cluster_of(k, Len(acc), groups[i].name, groups[i])))

\* list.sort(key=child_count, reverse=True): a stable sort, so of two equal
\* keys the one that stood first stays first
RECURSIVE insert_by_child_count(_, _)
insert_by_child_count(x, s) ==
    IF s = <<>> THEN <<x>>
    ELSE IF Head(s).child_count >= x.child_count
         THEN <<Head(s)>> \o insert_by_child_count(x, Tail(s))
         ELSE <<x>> \o s

\* a sort that is not stable: of two equal keys the later one comes first
RECURSIVE insert_before_equal(_, _)
insert_before_equal(x, s) ==
    IF s = <<>> THEN <<x>>
    ELSE IF Head(s).child_count > x.child_count
         THEN <<Head(s)>> \o insert_before_equal(x, Tail(s))
         ELSE <<x>> \o s

RECURSIVE sort_by_child_count_unstable(_)
sort_by_child_count_unstable(s) ==
    IF s = <<>> THEN <<>>
    ELSE insert_before_equal(s[Len(s)],
                             sort_by_child_count_unstable(SubSeq(s, 1, Len(s) - 1)))

RECURSIVE sort_by_child_count(_)
sort_by_child_count(s) ==
    IF s = <<>> THEN <<>>
    ELSE insert_by_child_count(s[Len(s)], sort_by_child_count(SubSeq(s, 1, Len(s) - 1)))

\* ---------------------------------------------------- level-3 parent lookup
\* cluster_index = None, level_2_parent_index = None
NoIndex == -1

\* dict[key] = value
dict_set(d, key, value) ==
    [x \in DOMAIN d \cup {key} |-> IF x = key THEN value ELSE d[x]]

\* x in children_list
contains(children_list, x) == \E i \in 1..Len(children_list) : children_list[i] = x

\* the loop that looks a cluster's id up in its own round: the 0-based position
\* of the first cluster of round_clusters, from idx on, with that id
RECURSIVE index_of_id(_, _, _)
index_of_id(round_clusters, id, idx) ==
    IF idx >= Len(round_clusters) THEN NoIndex
    ELSE IF round_clusters[idx + 1].id = id THEN idx
    ELSE index_of_id(round_clusters, id, idx + 1)

\* a scan without the break: the last cluster whose children list contains x
RECURSIVE parent_index_last(_, _, _)
parent_index_last(round_clusters, x, idx) ==
    IF idx >= Len(round_clusters) THEN NoIndex
    ELSE LET later == parent_index_last(round_clusters, x, idx + 1) IN
         IF later # NoIndex THEN later
         ELSE IF contains(round_clusters[idx + 1].children, x) THEN idx
         ELSE NoIndex

\* the loop that scans a round for the first cluster, from idx on, whose
\* children list contains index x: its 0-based position
RECURSIVE parent_index(_, _, _)
parent_index(round_clusters, x, idx) ==
    IF idx >= Len(round_clusters) THEN NoIndex
    ELSE IF contains(round_clusters[idx + 1].children, x) THEN idx
    ELSE parent_index(round_clusters, x, idx + 1)

\* the parent appended for one level_1 cluster (lines 115-141)
level_1_parent(cluster, round_1_clusters, round_2_clusters, round_3_clusters) ==
    LET cluster_index == index_of_id(round_1_clusters, cluster.id, 0)
        level_2_parent_index ==
            IF cluster_index # NoIndex
            THEN parent_index(round_2_clusters, cluster_index, 0)
            ELSE NoIndex
        r3 == IF level_2_parent_index # NoIndex
              THEN parent_index(round_3_clusters, level_2_parent_index, 0)
              ELSE NoIndex
    IN  IF r3 # NoIndex THEN round_3_clusters[r3 + 1].name ELSE Unknown

\* the parent appended for one level_2 cluster (lines 151-168)
level_2_parent(cluster, round_2_clusters, round_3_clusters) ==
    LET cluster_index == index_of_id(round_2_clusters, cluster.id, 0)
        r3 == IF cluster_index # NoIndex
              THEN parent_index(round_3_clusters, cluster_index, 0)
              ELSE NoIndex
    IN  IF r3 # NoIndex THEN round_3_clusters[r3 + 1].name ELSE Unknown

\* parent_assignments of generate_embeddings_for_level
parent_assignments(cluster_data, level_name, hd) ==
    LET has(key) == "meta_clusters" \in DOMAIN hd /\ key \in DOMAIN hd.meta_clusters
        mc == hd.meta_clusters
    IN  CASE level_name = "level_0" ->
               [i \in 1..Len(cluster_data) |->
                   get(cluster_data[i].parent_names, "round_3", Unknown)]
          [] level_name = "level_1" ->
               IF has("round_2") /\ has("round_3")
               THEN [i \in 1..Len(cluster_data) |->
                        level_1_parent(cluster_data[i], mc["round_1"], mc["round_2"],
                                       mc["round_3"])]
               ELSE [i \in 1..Len(cluster_data) |-> Unknown]
          [] level_name = "level_2" ->
               IF has("round_3")
               THEN [i \in 1..Len(cluster_data) |->
                        level_2_parent(cluster_data[i], mc["round_2"], mc["round_3"])]
               ELSE [i \in 1..Len(cluster_data) |-> Unknown]

\* result_data of generate_embeddings_for_level; the coordinates and the
\* embedded text come from the embedding model and the projection, which are
\* outside this model
generate_embeddings_for_level(cluster_data, level_name, hd) ==
    LET parents == parent_assignments(cluster_data, level_name, hd)
    IN  [i \in 1..Len(cluster_data) |->
            [id     |-> cluster_data[i].id,
             name   |-> cluster_data[i].name,
             parent |-> parents[i]]]

\* ------------------------------------------- inputs of the field extractor
SourceFiles == {"hierarchy_parser_old", "data_parser"}

ExtractFields == {"cluster_name", "meta_cluster_name"}

\* the pieces inner texts are made of, for field f
TextFragments(f) ==
    { <<"a">>, <<" ">>, <<">">>,
      open_tag(f), close_tag(f),
      <<"&lt;", f, "&gt;">>, <<"&lt;", "/", f, "&gt;">> }

\* what follows "<f" in a malformed opening tag
ExtraFragments == { <<" ", "x">>, <<" ", "x", "\n">> }

RECURSIVE Concats(_, _)
Concats(F, n) ==
    IF n = 0 THEN {<<>>}
    ELSE LET shorter == Concats(F, n - 1)
         IN  shorter \cup {a \o b : a \in F, b \in shorter}

Texts(f) == Concats(TextFragments(f), MaxFrags)

\* the input a sample stands for
InputOf(smp, f) ==
    CASE smp.shape = "wellformed" -> open_tag(f) \o smp.text \o close_tag(f)
      [] smp.shape = "malformed"  -> open_fragment(f) \o smp.extra \o smp.text \o close_tag(f)
      [] smp.shape = "bare"       -> smp.text
      [] smp.shape = "absent"     -> NaN

Samples(f) ==
    [shape : {"wellformed", "bare"}, text : Texts(f), extra : {<<>>}]
    \cup [shape : {"malformed"}, text : Texts(f), extra : ExtraFragments]
    \cup [shape : {"absent"}, text : {<<>>}, extra : {<<>>}]

\* where the run stands: a phase and, inside a loop, the iterations done
at(phase, i) == [phase |-> phase, i |-> i]

\* the membership parser is not being exercised
IdleMembers ==
    /\ member_sample = [shape |-> "absent", pieces |-> <<>>]
    /\ item_ids_cell = NaN
    /\ item_ids = <<>>
    /\ stdout = <<>>
    /\ tried = <<>>
    /\ mpc = "idle"

\* the pipeline is not running
IdleHierarchy ==
    /\ df = <<>>
    /\ clusters = <<>>
    /\ round_groups = <<>>
    /\ meta_clusters = <<>>
    /\ hierarchy_data = <<>>
    /\ all_embeddings = <<>>
    /\ pc = at("idle", 0)

InitExtract ==
    /\ field_name \in ExtractFields
    /\ source_file \in SourceFiles
    /\ sample \in Samples(field_name)
    /\ xml_string = InputOf(sample, field_name)
    /\ content = <<>>
    /\ content_again = <<>>
    /\ is_meta_cluster \in BOOLEAN
    /\ result = EmptyDict
    /\ xpc = "input"
    /\ IdleMembers
    /\ IdleHierarchy

extract_in(file, s, f) ==
    IF file = "data_parser" THEN dp_extract_xml_field(s, f) ELSE extract_xml_field(s, f)

\* extract_xml_field(xml_string, field_name) on a str
ExtractField ==
    /\ xpc = "input"
    /\ ~isna(xml_string)
    /\ content' = extract_in(source_file, xml_string, field_name)
    /\ xpc' = "extracted"
    /\ UNCHANGED <<sample, source_file, xml_string, field_name, content_again,
                   is_meta_cluster, result>>
    /\ UNCHANGED mvars
    /\ UNCHANGED hvars

\* extract_xml_field applied to its own result
ReExtractField ==
    /\ xpc = "extracted"
    /\ content_again' = extract_in(source_file, content, field_name)
    /\ xpc' = "reextracted"
    /\ UNCHANGED <<sample, source_file, xml_string, field_name, content,
                   is_meta_cluster, result>>
    /\ UNCHANGED mvars
    /\ UNCHANGED hvars

\* parse_xml_robust(xml_string, is_meta_cluster)
ParseXmlRobust ==
    /\ xpc = "input"
    /\ result' = IF source_file = "data_parser"
                 THEN dp_parse_xml_robust(xml_string, is_meta_cluster)
                 ELSE parse_xml_robust(xml_string, is_meta_cluster)
    /\ xpc' = "decoded"
    /\ UNCHANGED <<sample, source_file, xml_string, field_name, content, content_again,
                   is_meta_cluster>>
    /\ UNCHANGED mvars
    /\ UNCHANGED hvars

NextExtract == ExtractField \/ ReExtractField \/ ParseXmlRobust

SpecExtract == InitExtract /\ [][NextExtract]_vars

\* ---- parse_item_ids on one raw membership value
\* the pieces raw values are made of: the brackets, the separators, a str, an
\* int, a bare word, a pair, a triple, a 1-tuple and a float
StrElement == <<"\"", "a", "\"">>

IntElement == <<"7">>

BareWord == <<"x">>

PairElement == <<"(", "'", "c", "'", ",", " ", "True", ")">>

TripleElement == <<"(", "7", ",", "None", ",", "'", "a", "'", ")">>

SingletonElement == <<"(", "'", "a", "'", ",", ")">>

FloatElement == <<"1.5">>

MemberFragments ==
    { <<"[">>, <<"]">>, <<",">>, <<" ">>,
      StrElement, IntElement, BareWord, PairElement, TripleElement, SingletonElement,
      FloatElement }

SeqsUpTo(S, n) == UNION {[1..k -> S] : k \in 0..n}

RECURSIVE concat(_)
concat(parts) == IF parts = <<>> THEN <<>> ELSE Head(parts) \o concat(Tail(parts))

\* the raw value a sample stands for
RawValueOf(smp) ==
    CASE smp.shape = "list"   -> <<"[">> \o concat(smp.pieces) \o <<"]">>
      [] smp.shape = "tuple"  -> <<"(">> \o concat(smp.pieces) \o <<")">>
      [] smp.shape = "bare"   -> concat(smp.pieces)
      [] smp.shape = "absent" -> NaN

MemberSamples ==
    [shape : {"list", "tuple", "bare"}, pieces : SeqsUpTo(MemberFragments, MaxPieces)]
    \cup [shape : {"absent"}, pieces : {<<>>}]

InitMembers ==
    /\ sample = [shape |-> "absent", text |-> <<>>, extra |-> <<>>]
    /\ source_file \in SourceFiles
    /\ xml_string = NaN
    /\ field_name = "cluster_name"
    /\ content = <<>>
    /\ content_again = <<>>
    /\ is_meta_cluster = FALSE
    /\ result = EmptyDict
    /\ xpc = "idle"
    /\ member_sample \in MemberSamples
    /\ item_ids_cell = RawValueOf(member_sample)
    /\ item_ids = <<>>
    /\ stdout = <<>>
    /\ tried = <<>>
    /\ mpc = "input"
    /\ IdleHierarchy

\* parse_item_ids(item_ids_str), of either file
ParseItemIds ==
    /\ mpc = "input"
    /\ LET call == IF source_file = "data_parser"
                   THEN dp_parse_item_ids_call(item_ids_cell)
                   ELSE parse_item_ids_call(item_ids_cell)
       IN  /\ item_ids' = call.item_ids
           /\ stdout' = stdout \o call.stdout
           /\ tried' = call.tried
    /\ mpc' = "parsed"
    /\ UNCHANGED <<member_sample, item_ids_cell>>
    /\ UNCHANGED xvars
    /\ UNCHANGED hvars

NextMembers == ParseItemIds

SpecMembers == InitMembers /\ [][NextMembers]_vars

\* ================================================================ the run
\* the field extractor is not being exercised
IdleExtract ==
    /\ sample = [shape |-> "absent", text |-> <<>>, extra |-> <<>>]
    /\ source_file = "hierarchy_parser_old"
    /\ xml_string = NaN
    /\ field_name = "cluster_name"
    /\ content = <<>>
    /\ content_again = <<>>
    /\ is_meta_cluster = FALSE
    /\ result = EmptyDict
    /\ xpc = "idle"

\* ---- the cells and rows tables are made of
tag(f, text) == open_tag(f) \o text \o close_tag(f)

\* a cell wrapped in a code fence
fenced(s) ==
    <<Backquote, Backquote, Backquote, "x", "m", "l", "\n">> \o s
        \o <<"\n", Backquote, Backquote, Backquote>>

IndividualNamed ==
    fenced(tag("cluster_name", <<"n">>) \o <<"\n">> \o tag("synthesis", <<"d">>))

\* an individual analysis with no cluster_name tag
IndividualUnnamed == tag("synthesis", <<"d">>)

MetaCell(name) ==
    tag("meta_cluster_name", name) \o tag("synthesis_of_clusters", <<"s">> \o name)
        \o tag("overarching_theme", <<"t">> \o name)

\* a meta analysis that names its meta-cluster and says nothing else
MetaNameOnly(name) == tag("meta_cluster_name", name)

\* a membership cell: a list display of the pieces
MembersCell(pieces) == <<"[">> \o concat(pieces) \o <<"]">>

Row(members, individual, r1, r2, r3) ==
    [item_ids |-> members, cluster_name |-> individual, round_1_cluster_name |-> r1,
     round_2_cluster_name |-> r2, round_3_cluster_name |-> r3]

RowPool ==
    { Row(MembersCell(<<PairElement>>), IndividualNamed,
          MetaCell(<<"A">>), MetaCell(<<"A">>), MetaCell(<<"A">>)),
      Row(MembersCell(<<StrElement, <<",">>, IntElement>>), IndividualUnnamed,
          MetaCell(<<"B">>), MetaCell(<<"B">>), MetaCell(<<"B">>)),
      Row(MembersCell(<<BareWord>>), IndividualNamed,
          MetaCell(<<"A">>), MetaCell(<<"B">>), MetaCell(<<"B">>)),
      Row(NaN, NaN, MetaNameOnly(<<"A">>), NaN, NaN),
      Row(BareWord, IndividualNamed, MetaCell(<<"B">>), MetaCell(Unknown), <<"a">>),
      Row(NaN, IndividualUnnamed, MetaCell(Unknown), MetaCell(<<"A">>), MetaCell(<<"B">>)),
      Row(NaN, NaN, NaN, NaN, NaN) }

\* the loops over the rows and over the clusters end after n iterations
RECURSIVE next_pc(_, _, _)
next_pc(phase, i, n) ==
    IF phase = "parse" /\ i >= n THEN next_pc("group", 0, n)
    ELSE IF phase = "group" /\ i >= n THEN at("create", 1)
    ELSE at(phase, i)

Init ==
    /\ IdleExtract
    /\ IdleMembers
    /\ df \in SeqsUpTo(RowPool, MaxRows)
    /\ clusters = <<>>
    /\ round_groups = [k \in 1..3 |-> <<>>]
    /\ meta_clusters = [key \in RoundKeys |-> <<>>]
    /\ hierarchy_data = <<>>
    /\ all_embeddings = <<>>
    /\ pc = next_pc("parse", 0, Len(df))

\* one pass of "for idx, row in df.iterrows()" (lines 129-188)
AssembleRow ==
    /\ pc.phase = "parse"
    /\ clusters' = Append(clusters, cluster_data_of(pc.i, df[pc.i + 1]))
    /\ pc' = next_pc("parse", pc.i + 1, Len(df))
    /\ UNCHANGED <<df, round_groups, meta_clusters, hierarchy_data, all_embeddings>>
    /\ UNCHANGED xvars
    /\ UNCHANGED mvars

\* one pass of "for cluster in clusters" (lines 198-216)
GroupCluster ==
    /\ pc.phase = "group"
    /\ LET cluster == clusters[pc.i + 1] IN
       round_groups' =
           [k \in 1..3 |->
               group_add(round_groups[k], cluster.parent_names[round_key(k)],
                         cluster.id, cluster.meta_analyses[round_key(k)])]
    /\ pc' = next_pc("group", pc.i + 1, Len(clusters))
    /\ UNCHANGED <<df, clusters, meta_clusters, hierarchy_data, all_embeddings>>
    /\ UNCHANGED xvars
    /\ UNCHANGED mvars

\* the loop that makes round pc.i's meta-clusters (lines 226-241, 244-259, 262-277)
CreateMetaClusters ==
    /\ pc.phase = "create"
    /\ meta_clusters' =
           [meta_clusters EXCEPT ![round_key(pc.i)] =
               create_meta_clusters(round_groups[pc.i], pc.i, 1, <<>>)]
    /\ pc' = IF pc.i = 3 THEN at("sort", 0) ELSE at("create", pc.i + 1)
    /\ UNCHANGED <<df, clusters, round_groups, hierarchy_data, all_embeddings>>
    /\ UNCHANGED xvars
    /\ UNCHANGED mvars

\* "for round_key in meta_clusters: meta_clusters[round_key].sort(...)" (lines 280-281)
SortMetaClusters ==
    /\ pc.phase = "sort"
    /\ meta_clusters' = [key \in RoundKeys |-> sort_by_child_count(meta_clusters[key])]
    /\ pc' = at("return", 0)
    /\ UNCHANGED <<df, clusters, round_groups, hierarchy_data, all_embeddings>>
    /\ UNCHANGED xvars
    /\ UNCHANGED mvars

\* build_hierarchy_tree returns (lines 283-292); main dumps the document to
\* hierarchical_clusters.json and generate_embeddings.main loads it: the
\* values are ints, strs, lists and dicts with str keys, which JSON gives back
\* unchanged
ReturnHierarchy ==
    /\ pc.phase = "return"
    /\ hierarchy_data' =
           [individual_clusters |-> clusters,
            meta_clusters       |-> meta_clusters,
            hierarchy_stats     |->
                [total_clusters |-> Len(clusters),
                 round_1_groups |-> Len(meta_clusters["round_1"]),
                 round_2_groups |-> Len(meta_clusters["round_2"]),
                 round_3_groups |-> Len(meta_clusters["round_3"])]]
    /\ pc' = at("level_0", 0)
    /\ UNCHANGED <<df, clusters, round_groups, meta_clusters, all_embeddings>>
    /\ UNCHANGED xvars
    /\ UNCHANGED mvars

\* generate_embeddings.main, "Level 0" (lines 213-216)
GenerateLevel0 ==
    /\ pc.phase = "level_0"
    /\ all_embeddings' =
           IF "individual_clusters" \in DOMAIN hierarchy_data
           THEN dict_set(all_embeddings, "level_0",
                    generate_embeddings_for_level(hierarchy_data.individual_clusters,
                                                  "level_0", hierarchy_data))
           ELSE all_embeddings
    /\ pc' = at("level_1", 0)
    /\ UNCHANGED <<df, clusters, round_groups, meta_clusters, hierarchy_data>>
    /\ UNCHANGED xvars
    /\ UNCHANGED mvars

\* generate_embeddings.main, "Level 1" (lines 219-222)
GenerateLevel1 ==
    /\ pc.phase = "level_1"
    /\ all_embeddings' =
           IF "meta_clusters" \in DOMAIN hierarchy_data
              /\ "round_1" \in DOMAIN hierarchy_data.meta_clusters
           THEN dict_set(all_embeddings, "level_1",
                    generate_embeddings_for_level(hierarchy_data.meta_clusters["round_1"],
                                                  "level_1", hierarchy_data))
           ELSE all_embeddings
    /\ pc' = at("level_2", 0)
    /\ UNCHANGED <<df, clusters, round_groups, meta_clusters, hierarchy_data>>
    /\ UNCHANGED xvars
    /\ UNCHANGED mvars

\* generate_embeddings.main, "Level 2" (lines 225-228)
GenerateLevel2 ==
    /\ pc.phase = "level_2"
    /\ all_embeddings' =
           IF "meta_clusters" \in DOMAIN hierarchy_data
              /\ "round_2" \in DOMAIN hierarchy_data.meta_clusters
           THEN dict_set(all_embeddings, "level_2",
                    generate_embeddings_for_level(hierarchy_data.meta_clusters["round_2"],
                                                  "level_2", hierarchy_data))
           ELSE all_embeddings
    /\ pc' = at("saved", 0)
    /\ UNCHANGED <<df, clusters, round_groups, meta_clusters, hierarchy_data>>
    /\ UNCHANGED xvars
    /\ UNCHANGED mvars

Next ==
    \/ AssembleRow
    \/ GroupCluster
    \/ CreateMetaClusters
    \/ SortMetaClusters
    \/ ReturnHierarchy
    \/ GenerateLevel0
    \/ GenerateLevel1
    \/ GenerateLevel2

\* hierarchy_parser_old.main followed by generate_embeddings.main on one table
Spec == Init /\ [][Next]_vars

\* ---- generate_embeddings.main on a hierarchical_clusters.json of any content
\* the ids a round-k meta-cluster of such a document may carry
IdPool(k) == {meta_cluster_id(k, 0), meta_cluster_id(k, 1)}

ChildrenPool == {<<>>, <<1>>, <<0, 1>>}

\* round 1: the ids vary
Round1Lists ==
    SeqsUpTo([id : IdPool(1), name : {<<"N">>}, children : {<<>>}], MaxMeta)

\* round 2: the ids and the children vary
Round2Lists ==
    SeqsUpTo([id : IdPool(2), name : {<<"M">>}, children : ChildrenPool], MaxMeta)

\* round 3: the children vary; the i-th cluster is named T i
Round3Lists ==
    { [i \in 1..Len(c) |->
          [id |-> meta_cluster_id(3, i - 1), name |-> <<"T", ToString(i - 1)>>,
           children |-> c[i]]] : c \in SeqsUpTo(ChildrenPool, MaxMeta) }

\* the document with the rounds in present kept
Document(r1, r2, r3, present) ==
    [individual_clusters |-> <<>>,
     meta_clusters |->
         [key \in present |->
             CASE key = "round_1" -> r1 [] key = "round_2" -> r2 [] key = "round_3" -> r3]]

\* the documents: all three rounds present, or one of them missing
IsDocument(hd) ==
    \/ \E r1 \in Round1Lists, r2 \in Round2Lists, r3 \in Round3Lists :
          hd = Document(r1, r2, r3, RoundKeys)
    \/ \E r2 \in Round2Lists, r3 \in Round3Lists :
          hd = Document(<<>>, r2, r3, {"round_2", "round_3"})
    \/ \E r1 \in Round1Lists, r3 \in Round3Lists :
          hd = Document(r1, <<>>, r3, {"round_1", "round_3"})
    \/ \E r1 \in Round1Lists, r2 \in Round2Lists :
          hd = Document(r1, r2, <<>>, {"round_1", "round_2"})

InitResolve ==
    /\ IdleExtract
    /\ IdleMembers
    /\ df = <<>>
    /\ clusters = <<>>
    /\ round_groups = <<>>
    /\ meta_clusters = <<>>
    /\ IsDocument(hierarchy_data)
    /\ all_embeddings = <<>>
    /\ pc = at("level_0", 0)

NextResolve == GenerateLevel0 \/ GenerateLevel1 \/ GenerateLevel2

SpecResolve == InitResolve /\ [][NextResolve]_vars

\* ======================================================== field extractor claims
\* the text holds no closing tag of field f (the field is not nested in itself)
NoCloseTag(text, f) == \A i \in 1..Len(text) : ~StartsAt(text, i, close_tag(f))

\* the text holds no character reference of an angle bracket
NoEncodedMarkup(text) == \A i \in 1..Len(text) : text[i] \notin {"&lt;", "&gt;"}

WellFormed == sample.shape = "wellformed" /\ NoCloseTag(sample.text, field_name)

Extracted == xpc \in {"extracted", "reextracted"}

\* C6 as stated: parse_xml_robust returns, for every input (the empty string and
\* an absent value included) and both field sets, a mapping with every key of the
\* requested field set; an absent value gives all six keys mapped to "".
C6_EveryKeyForEveryInput ==
    xpc = "decoded" =>
        /\ fields_of(is_meta_cluster) \subseteq DOMAIN result
        /\ isna(xml_string) => result = [f \in fields_of(is_meta_cluster) |-> <<>>]

\* C6 amended: for every str input, the empty string included, and both field
\* sets, the keys of the mapping are exactly the requested field set; an absent
\* (NaN) value decodes to the empty dict, which has none of the keys.
C6_EveryKeyForStrInput ==
    xpc = "decoded" =>
        IF isna(xml_string)
        THEN DOMAIN result = {}
        ELSE DOMAIN result = fields_of(is_meta_cluster)

\* the empty string was decoded with the meta field set: six keys, all ""
C6_Witness ==
    /\ xpc = "decoded"
    /\ xml_string = <<>>
    /\ is_meta_cluster
    /\ DOMAIN result = MetaFields
    /\ \A f \in MetaFields : result[f] = <<>>

\* C8 as stated: for well-formed input <f>text</f>, extract_xml_field returns
\* text exactly, after HTML-entity decoding.
C8_ReturnsTextExactly ==
    (Extracted /\ WellFormed) => content = unescape(sample.text)

\* C8 amended: for well-formed input <f>text</f>, extract_xml_field returns text
\* with its leading and trailing whitespace removed and then entity-decoded.
C8_ReturnsTrimmedDecodedText ==
    (Extracted /\ WellFormed) => content = unescape(strip(sample.text))

\* a text with whitespace around it and a character reference in it was extracted
C8_Witness ==
    /\ xpc = "extracted"
    /\ WellFormed
    /\ sample.text = <<" ", "&lt;", field_name, "&gt;", " ">>
    /\ content = <<"<", field_name, ">">>

C10_MalformedFragmentSkipped ==
    ( /\ Extracted
      /\ source_file = "hierarchy_parser_old"
      /\ sample.shape = "malformed"
      /\ NoCloseTag(sample.text, field_name)
      /\ \A i \in 1..Len(sample.text) : sample.text[i] # ">" )
        => content = unescape(strip(sample.text))

\* ============================================================ hierarchy claims
\* the document has been returned by build_hierarchy_tree
Built == pc.phase \in {"level_0", "level_1", "level_2", "saved"}

Min(S) == CHOOSE x \in S : \A y \in S : x <= y

ChildSet(m) == {m.children[j] : j \in 1..Len(m.children)}

\* the meta-clusters of round k in the document
RoundOf(k) == hierarchy_data.meta_clusters[round_key(k)]

\* the ids of the individual clusters that name a real round-k parent
Named(k) ==
    {hierarchy_data.individual_clusters[i].id :
        i \in {j \in 1..Len(hierarchy_data.individual_clusters) :
                  hierarchy_data.individual_clusters[j].parent_names[round_key(k)]
                      \notin {<<>>, Unknown}}}

\* C1: in the output of build_hierarchy_tree every child of a round-2
\* meta-cluster is a position in the final round_1 list (< len(round_1)) and
\* every child of a round-3 meta-cluster is a position in the final round_2
\* list (< len(round_2)).
C1_ChildrenArePositions ==
    Built =>
        \A k \in {2, 3} : \A i \in 1..Len(RoundOf(k)) :
            \A c \in ChildSet(RoundOf(k)[i]) : c >= 0 /\ c < Len(RoundOf(k - 1))

Orphaned(m, k) ==
    \A c \in ChildSet(m) :
        hierarchy_data.individual_clusters[c + 1].parent_names[round_key(k)]
            \in {<<>>, Unknown}

\* C3: run on the built hierarchy, a round-1 meta-cluster whose members all have
\* an empty or 'Unknown' round_2 parent name gets the level-3 parent 'Unknown',
\* and so does a round-2 meta-cluster whose members all have an empty or
\* 'Unknown' round_3 parent name.
C3_OrphansGetUnknown ==
    pc.phase = "saved" =>
        /\ \A i \in 1..Len(RoundOf(1)) :
              Orphaned(RoundOf(1)[i], 2) => all_embeddings["level_1"][i].parent = Unknown
        /\ \A i \in 1..Len(RoundOf(2)) :
              Orphaned(RoundOf(2)[i], 3) => all_embeddings["level_2"][i].parent = Unknown

\* the row at which round k's parent name of meta-cluster m is first seen
FirstSeen(m, k) ==
    Min({i \in 1..Len(hierarchy_data.individual_clusters) :
            hierarchy_data.individual_clusters[i].parent_names[round_key(k)] = m.name})

\* C5: each round's list is in descending order of child count, and
\* meta-clusters of equal child count stand in first-seen order.
C5_SortedStable ==
    Built =>
        \A k \in 1..3 : \A i, j \in 1..Len(RoundOf(k)) :
            i < j =>
                /\ RoundOf(k)[i].child_count >= RoundOf(k)[j].child_count
                /\ RoundOf(k)[i].child_count = RoundOf(k)[j].child_count
                      => FirstSeen(RoundOf(k)[i], k) < FirstSeen(RoundOf(k)[j], k)

\* round 1: the meta-cluster seen second has two children and stands first;
\* round 2: two meta-clusters of one child each stand in first-seen order
C5_Witness ==
    /\ Built
    /\ Len(RoundOf(1)) = 2
    /\ RoundOf(1)[1].children = <<1, 2>>
    /\ RoundOf(1)[2].children = <<0>>
    /\ Len(RoundOf(2)) = 2
    /\ RoundOf(2)[1].children = <<0>>
    /\ RoundOf(2)[2].children = <<1>>

\* the cluster_name extracted from the individual-analysis cell of row i
ExtractedClusterName(i) ==
    IF isna(df[i].cluster_name) THEN <<>>
    ELSE extract_xml_field(clean_xml_string(df[i].cluster_name), "cluster_name")

\* C7: the name of the cluster of row idx is the extracted cluster_name when
\* that is non-empty, and "Cluster {idx}" whenever it is empty, be the cell
\* absent or present without an extractable cluster_name tag.
C7_NameOrFallback ==
    \A i \in 1..Len(clusters) :
        clusters[i].name =
            IF ExtractedClusterName(i) # <<>> THEN ExtractedClusterName(i)
            ELSE default_cluster_name(i - 1)

\* ===================================================== parent lookup claims
\* the 0-based positions of the clusters of a round whose children hold x
Holders(round_clusters, x) ==
    {q \in 0..(Len(round_clusters) - 1) : x \in ChildSet(round_clusters[q + 1])}

\* the name of the first round-3 cluster that holds position q, else 'Unknown'
Round3NameOf(q) ==
    LET r3 == hierarchy_data.meta_clusters["round_3"] IN
    IF Holders(r3, q) = {} THEN Unknown ELSE r3[Min(Holders(r3, q)) + 1].name

\* the level-3 ancestor of the round-1 cluster at position p
Ancestor1(p) ==
    IF ~({"round_2", "round_3"} \subseteq DOMAIN hierarchy_data.meta_clusters)
    THEN Unknown
    ELSE LET r2 == hierarchy_data.meta_clusters["round_2"] IN
         IF Holders(r2, p) = {} THEN Unknown ELSE Round3NameOf(Min(Holders(r2, p)))

\* the level-3 ancestor of the round-2 cluster at position q
Ancestor2(q) ==
    IF "round_3" \notin DOMAIN hierarchy_data.meta_clusters THEN Unknown
    ELSE Round3NameOf(q)

\* the position of the first cluster of the round with the id of the one at p
FirstWithSameId(round_clusters, p) ==
    Min({j \in 0..p : round_clusters[j + 1].id = round_clusters[p + 1].id})

AllAbsent(row) ==
    /\ isna(row.item_ids)
    /\ isna(row.cluster_name)
    /\ \A k \in 1..3 : isna(round_column(row, k))

\* the meta_cluster_name extracted from the round-k cell of the row
RowParentName(row, k) ==
    IF isna(round_column(row, k)) THEN <<>>
    ELSE extract_xml_field(clean_xml_string(round_column(row, k)), "meta_cluster_name")

\* the individual cluster at 0-based position c is a child of a round-k meta-cluster
IsChild(c, k) == \E j \in 1..Len(RoundOf(k)) : c \in ChildSet(RoundOf(k)[j])

\* C13: a row whose source cells are all absent never aborts the batch: it
\* yields an individual cluster with all descriptive fields empty, an empty
\* member sequence and empty parent_names for all three rounds; that cluster is
\* a child of no meta-cluster in any round; every other row yields its cluster
\* at its own row index, with the parent names of its own cells, and is a child
\* of the meta-cluster each of them names.
C13_AbsentRowYieldsEmptyCluster ==
    Built =>
        LET ic == hierarchy_data.individual_clusters IN
        /\ Len(ic) = Len(df)
        /\ \A i \in 1..Len(df) :
              IF AllAbsent(df[i])
              THEN /\ ic[i].description = <<>>
                   /\ ic[i].topic = <<>>
                   /\ ic[i].keywords = <<>>
                   /\ ic[i].engagement = <<>>
                   /\ ic[i].redirection = <<>>
                   /\ ic[i].item_ids = <<>>
                   /\ \A k \in 1..3 : ic[i].parent_names[round_key(k)] = <<>>
                   /\ \A k \in 1..3 : ~IsChild(i - 1, k)
              ELSE /\ ic[i].id = i - 1
                   /\ \A k \in 1..3 :
                         /\ ic[i].parent_names[round_key(k)] = RowParentName(df[i], k)
                         /\ RowParentName(df[i], k) \notin {<<>>, Unknown} =>
                               \E j \in 1..Len(RoundOf(k)) :
                                   /\ RoundOf(k)[j].name = RowParentName(df[i], k)
                                   /\ (i - 1) \in ChildSet(RoundOf(k)[j])

\* an all-absent row stood between two rows that name round-1 parents: the
\* three clusters were built and the rows around it are children
C13_Witness ==
    /\ Built
    /\ Len(df) = 3
    /\ ~AllAbsent(df[1])
    /\ AllAbsent(df[2])
    /\ ~AllAbsent(df[3])
    /\ Len(hierarchy_data.individual_clusters) = 3
    /\ hierarchy_data.individual_clusters[2].item_ids = <<>>
    /\ hierarchy_data.individual_clusters[1].item_ids # <<>>
    /\ IsChild(0, 1)
    /\ ~IsChild(1, 1)
    /\ IsChild(2, 1)

\* C15: the description, topic, keywords, tactics and redirection of every
\* meta-cluster of round k are those of the round-k meta-analysis block of the
\* lowest-row-index individual cluster that names it as round-k parent; later
\* clusters of the same parent name never change them, even when the first
\* cluster's text is empty and a later one's is not.
C15_FirstClusterWins ==
    Built =>
        \A k \in 1..3 : \A i \in 1..Len(RoundOf(k)) :
            LET m == RoundOf(k)[i]
                first == hierarchy_data.individual_clusters[FirstSeen(m, k)]
                            .meta_analyses[round_key(k)]
            IN  /\ m.description = first.synthesis
                /\ m.topic = first.theme
                /\ m.keywords = first.keywords
                /\ m.tactics = first.tactics
                /\ m.redirection = first.redirection

\* round 1: the first row names A and says nothing else, the second names A
\* with a synthesis and a theme; the meta-cluster A has neither
C15_Witness ==
    /\ Built
    /\ Len(hierarchy_data.individual_clusters) = 2
    /\ Len(RoundOf(1)) = 1
    /\ RoundOf(1)[1].children = <<0, 1>>
    /\ hierarchy_data.individual_clusters[1].meta_analyses["round_1"].synthesis = <<>>
    /\ hierarchy_data.individual_clusters[2].meta_analyses["round_1"].synthesis # <<>>
    /\ hierarchy_data.individual_clusters[2].meta_analyses["round_1"].theme # <<>>
    /\ RoundOf(1)[1].description = <<>>
    /\ RoundOf(1)[1].topic = <<>>

\* how many meta-clusters of round k were first seen before meta-cluster m
SeenBefore(m, k) ==
    Cardinality({j \in 1..Len(RoundOf(k)) : FirstSeen(RoundOf(k)[j], k) < FirstSeen(m, k)})

\* C16: the id of each round-k meta-cluster is "r{k}_{n}", n its insertion
\* order (0-based, counted among the materialized groups in first-seen order)
\* before the final sort; so the ids of a round are pairwise distinct and are
\* exactly r{k}_0 .. r{k}_{len-1}.
C16_IdIsInsertionOrder ==
    Built =>
        \A k \in 1..3 :
            /\ \A i \in 1..Len(RoundOf(k)) :
                  RoundOf(k)[i].id = meta_cluster_id(k, SeenBefore(RoundOf(k)[i], k))
            /\ {RoundOf(k)[i].id : i \in 1..Len(RoundOf(k))}
                  = {meta_cluster_id(k, n) : n \in 0..(Len(RoundOf(k)) - 1)}
            /\ \A i, j \in 1..Len(RoundOf(k)) :
                  i # j => RoundOf(k)[i].id # RoundOf(k)[j].id

\* round 1: of the two meta-clusters the one made second has more children and
\* stands first after the sort, so the id suffixes are not the positions
C16_Witness ==
    /\ Built
    /\ Len(RoundOf(1)) = 2
    /\ RoundOf(1)[1].id = meta_cluster_id(1, 1)
    /\ RoundOf(1)[2].id = meta_cluster_id(1, 0)
    /\ RoundOf(1)[1].child_count > RoundOf(1)[2].child_count

\* every individual cluster names a real parent in all three rounds
AllNamed ==
    \A i \in 1..Len(hierarchy_data.individual_clusters) : \A k \in 1..3 :
        hierarchy_data.individual_clusters[i].parent_names[round_key(k)] \notin {<<>>, Unknown}

\* clusters sharing a round-1 name share their round-2 name, and clusters
\* sharing a round-2 name share their round-3 name
ProperlyNested ==
    \A i, j \in 1..Len(hierarchy_data.individual_clusters) : \A k \in 1..2 :
        LET a == hierarchy_data.individual_clusters[i].parent_names
            b == hierarchy_data.individual_clusters[j].parent_names
        IN  a[round_key(k)] = b[round_key(k)] => a[round_key(k + 1)] = b[round_key(k + 1)]

\* the individual clusters that name meta-cluster m as round-k parent
MembersOf(m, k) ==
    {i \in 1..Len(hierarchy_data.individual_clusters) :
        hierarchy_data.individual_clusters[i].parent_names[round_key(k)] = m.name}

\* C17: for a table in which every individual cluster names a real parent in
\* all three rounds and the names are properly nested, the level-3 parent that
\* generate_embeddings_for_level assigns to each round-1 and each round-2
\* meta-cluster equals the round_3 parent name of its member individual
\* clusters.
C17_ResolvedParentIsRound3Name ==
    (pc.phase = "saved" /\ AllNamed /\ ProperlyNested) =>
        /\ \A i \in 1..Len(RoundOf(1)) : \A c \in MembersOf(RoundOf(1)[i], 1) :
              all_embeddings["level_1"][i].parent
                  = hierarchy_data.individual_clusters[c].parent_names["round_3"]
        /\ \A i \in 1..Len(RoundOf(2)) : \A c \in MembersOf(RoundOf(2)[i], 2) :
              all_embeddings["level_2"][i].parent
                  = hierarchy_data.individual_clusters[c].parent_names["round_3"]

\* C18: in the output of build_hierarchy_tree every meta-cluster of every round
\* has a children list that is strictly ascending, a child_count equal to the
\* length of that list, and at least one child.
C18_ChildrenAscending ==
    Built =>
        \A k \in 1..3 : \A i \in 1..Len(RoundOf(k)) :
            LET m == RoundOf(k)[i] IN
            /\ Len(m.children) >= 1
            /\ m.child_count = Len(m.children)
            /\ \A a, b \in 1..Len(m.children) : a < b => m.children[a] < m.children[b]

\* round 1: a meta-cluster of rows 0 and 2, the row between them its own
C18_Witness ==
    /\ Built
    /\ Len(RoundOf(1)) = 2
    /\ RoundOf(1)[1].children = <<0, 2>>
    /\ RoundOf(1)[1].child_count = 2
    /\ RoundOf(1)[2].children = <<1>>

\* ===================================================== membership parser claims
Max(S) == CHOOSE x \in S : \A y \in S : x >= y

\* the pieces of the sample that are not spaces
Spaceless == SelectSeq(member_sample.pieces, LAMBDA f : f # <<" ">>)

\* the fragments that are one element of a literal sequence
ElementFragments ==
    {StrElement, IntElement, PairElement, TripleElement, SingletonElement, FloatElement}

\* the pieces are elements separated by single commas (a trailing comma allowed)
ElementList ==
    \A i \in 1..Len(Spaceless) :
        IF i % 2 = 1 THEN Spaceless[i] \in ElementFragments ELSE Spaceless[i] = <<",">>

\* the raw value is a list display, or a tuple display (in parentheses or not)
LiteralSequence ==
    /\ member_sample.shape \in {"list", "tuple", "bare"}
    /\ ElementList
    /\ \/ member_sample.shape = "list"
       \/ Len(Spaceless) >= 2
       \/ member_sample.shape = "tuple" /\ Len(Spaceless) = 0

\* the elements of the literal sequence, in input order
Elements == [k \in 1..((Len(Spaceless) + 1) \div 2) |-> Spaceless[2 * k - 1]]

\* the Member the claim gives for an element: str(e[0]) and bool(e[1]) of a
\* tuple of two or more, str(e) and false of a bare scalar
MemberFor(e) ==
    CASE e = StrElement    -> [item_id |-> <<"a">>,   truth_value |-> FALSE]
      [] e = IntElement    -> [item_id |-> <<"7">>,   truth_value |-> FALSE]
      [] e = FloatElement  -> [item_id |-> <<"1.5">>, truth_value |-> FALSE]
      [] e = PairElement   -> [item_id |-> <<"c">>,   truth_value |-> TRUE]
      [] e = TripleElement -> [item_id |-> <<"7">>,   truth_value |-> FALSE]

\* C11 as stated: when the raw value is a literal sequence, parse_item_ids
\* emits, in input order, one Member per element: str(e[0]) and bool(e[1]) for
\* a tuple of two or more items, str(e) and false for a bare scalar; no element
\* of the sequence is dropped.
C11_OneMemberPerElement ==
    (mpc = "parsed" /\ LiteralSequence) =>
        /\ Len(item_ids) = Len(Elements)
        /\ \A k \in 1..Len(Elements) :
              Elements[k] # SingletonElement => item_ids[k] = MemberFor(Elements[k])

\* the elements the loop has a branch for: tuples of two or more, strs, ints
EmittedElements ==
    SelectSeq(Elements, LAMBDA e : e \in {StrElement, IntElement, PairElement, TripleElement})

\* C11 amended: when the raw value is a literal list or tuple, parse_item_ids
\* emits, in input order, one Member per element that is a tuple of two or
\* more items (str(e[0]), bool(e[1])) or a str or int (str(e), false); every
\* other element (a tuple of fewer than two items, a float) is dropped.
C11_OneMemberPerPairOrStrOrInt ==
    (mpc = "parsed" /\ LiteralSequence) =>
        item_ids = [k \in 1..Len(EmittedElements) |-> MemberFor(EmittedElements[k])]

\* "[('c', True),7]" was parsed to the two members, in order
C11_Witness ==
    /\ mpc = "parsed"
    /\ member_sample = [shape |-> "list", pieces |-> <<PairElement, <<",">>, IntElement>>]
    /\ item_ids = << [item_id |-> <<"c">>, truth_value |-> TRUE],
                     [item_id |-> <<"7">>, truth_value |-> FALSE] >>
    /\ tried = <<"literal">>

\* C12 as stated: for an absent raw value and for the empty string,
\* parse_item_ids returns the empty sequence by short-circuit: no parse
\* strategy is attempted and no diagnostic is recorded.
C12_AbsentAndEmptyShortCircuit ==
    (mpc = "parsed" /\ (isna(item_ids_cell) \/ item_ids_cell = <<>>)) =>
        item_ids = <<>> /\ tried = <<>> /\ stdout = <<>>

\* C12 amended: for an absent raw value parse_item_ids returns the empty
\* sequence by short-circuit, no strategy attempted and no diagnostic recorded;
\* for the empty string it returns the empty sequence after both strategies
\* were attempted, and the diagnostic is recorded.
C12_AbsentShortCircuitsEmptyStringDoesNot ==
    /\ (mpc = "parsed" /\ isna(item_ids_cell)) =>
          item_ids = <<>> /\ tried = <<>> /\ stdout = <<>>
    /\ (mpc = "parsed" /\ item_ids_cell = <<>>) =>
          /\ item_ids = <<>>
          /\ tried = <<"literal", "split">>
          /\ stdout = << <<"Could not parse item_ids: ", "...">> >>

\* the absent value was parsed
C12_Witness ==
    /\ mpc = "parsed"
    /\ member_sample.shape = "absent"
    /\ isna(item_ids_cell)
    /\ item_ids = <<>>
    /\ tried = <<>>
    /\ stdout = <<>>

\* s without the symbols of chars at its two ends
Trimmed(s, chars) ==
    LET keep == {i \in 1..Len(s) : s[i] \notin chars} IN
    IF keep = {} THEN <<>> ELSE SubSeq(s, Min(keep), Max(keep))

\* the raw value without the whitespace around it
Cleaned == Trimmed(item_ids_cell, Whitespace)

BracketEnclosed == Cleaned # <<>> /\ Cleaned[1] = "[" /\ Cleaned[Len(Cleaned)] = "]"

\* what stands between the enclosing brackets
Inner == SubSeq(Cleaned, 2, Len(Cleaned) - 1)

\* the pieces of text between its commas, each without its whitespace and
\* quote padding: cuts are the positions of the commas and of the two ends
PiecesOf(text) ==
    LET cuts == {0, Len(text) + 1} \cup {i \in 1..Len(text) : text[i] = ","}
        cut(j) == CHOOSE c \in cuts : Cardinality({d \in cuts : d < c}) = j - 1
    IN  [j \in 1..(Cardinality(cuts) - 1) |->
            Trimmed(Trimmed(SubSeq(text, cut(j) + 1, cut(j + 1) - 1), Whitespace),
                    QuoteChars)]

NonEmptyPieces == SelectSeq(PiecesOf(Inner), LAMBDA piece : piece # <<>>)

\* C14: when the literal-sequence strategy fails, parse_item_ids strips one
\* enclosing bracket pair, splits on commas, strips whitespace and quote
\* padding from each piece and emits {id: piece, truth_value: false} for each
\* non-empty piece in order, recording nothing; only when the value is not
\* bracket-enclosed does it return the empty sequence and record a diagnostic.
C14_SplitRecovery ==
    (mpc = "parsed" /\ Len(tried) = 2) =>
        IF BracketEnclosed
        THEN /\ LET pieces == NonEmptyPieces IN
                item_ids = [k \in 1..Len(pieces) |->
                               [item_id |-> pieces[k], truth_value |-> FALSE]]
             /\ stdout = <<>>
        ELSE /\ item_ids = <<>>
             /\ Len(stdout) = 1

\* "[x,"a"]" is no literal (x is a name): the split gave the two pieces, the
\* second without its quotes
C14_Witness ==
    /\ mpc = "parsed"
    /\ member_sample = [shape |-> "list", pieces |-> <<BareWord, <<",">>, StrElement>>]
    /\ tried = <<"literal", "split">>
    /\ item_ids = << [item_id |-> <<"x">>, truth_value |-> FALSE],
                     [item_id |-> <<"a">>, truth_value |-> FALSE] >>
    /\ stdout = <<>>

====
